---- MODULE Spec2Model ----
(***************************************************************************)
(* Model of staging_init.py: a one-shot batch script that copies every     *)
(* base table of an MSSQL database into Snowflake through parquet files.   *)
(*                                                                         *)
(* The script is straight-line module-level code.  Each call into an       *)
(* external collaborator (pyodbc, pandas, pyarrow, snowflake.connector)    *)
(* is one step that either returns or raises; the model has one action per *)
(* outcome of each such call.  An exception that no try/except of the      *)
(* script catches ends the interpreter (pc = "crashed"); exit(1) ends it   *)
(* with pc = "exit1"; falling off the end of the script is pc = "done".    *)
(*                                                                         *)
(* The two pure helpers, mssql_to_sf_type and wrap_column_expr, are        *)
(* operators, exercised by the specification SpecFn.                       *)
(***************************************************************************)
EXTENDS Integers, Sequences, FiniteSets, TLC

VARIABLES
    pc,                 \* position of the script
    tables,             \* `tables`: rows of the catalog query, in order
    idx,                \* index of the table the current loop is at
    sf_ddl_statements,  \* `sf_ddl_statements`: one entry per processed table
    mssql_opened,       \* pyodbc.connect returned
    mssql_closes,       \* number of mssql_conn.close() calls
    sf_opened,          \* snowflake.connector.connect returned
    sf_closes,          \* number of sf_conn.close() calls
    log,                \* every per-table external call made so far
    dtype,              \* SpecFn: the source type string under test
    col,                \* SpecFn: the column name under test
    sf_type,            \* SpecFn: result of mssql_to_sf_type(dtype)
    col_expr            \* SpecFn: result of wrap_column_expr(col, dtype)

orchVars == <<pc, tables, idx, sf_ddl_statements, mssql_opened, mssql_closes,
              sf_opened, sf_closes, log>>
fnVars == <<dtype, col, sf_type, col_expr>>
vars == <<pc, tables, idx, sf_ddl_statements, mssql_opened, mssql_closes,
          sf_opened, sf_closes, log, dtype, col, sf_type, col_expr>>

----------------------------------------------------------------------------
(* Bounds of the model.                                                    *)

\* Largest number of rows the catalog query returns.
MaxTables == 3

\* Largest number of letters of a type name written in upper case, apart
\* from the all-upper-case spelling, which is always included.
MaxUpper == 1

\* The catalog the rows are drawn from.  INFORMATION_SCHEMA.TABLES holds one
\* row per (schema, table), so a result never repeats a pair; the same table
\* name may occur under two schemas.
Schemas == {"dbo", "sales"}
TableNames == {"A", "B"}
TableIds == Schemas \X TableNames

\* snowflake_config["schema"] and snowflake_config["database"]
SfSchema == "SCH"
SfDatabase == "DB"
output_dir == "./parquet_files"

----------------------------------------------------------------------------
(* Strings the script builds for one table t = <<schema, table>>.          *)

\* The object named by the information-schema and SELECT queries.
source_table(t) == "[" \o t[1] \o "].[" \o t[2] \o "]"

parquet_file(t) == t[1] \o "_" \o t[2] \o ".parquet"

table_path(t) == output_dir \o "/" \o parquet_file(t)

\* The table named by the CREATE OR REPLACE TABLE statement.
ddl_table(t) == SfSchema \o ".\"STG_ADW_" \o t[2] \o "\""

full_table_name(t) == SfDatabase \o "." \o SfSchema \o ".\"STG_ADW_" \o t[2] \o "\""

stage_name == "@" \o SfDatabase \o "." \o SfSchema \o ".staging_stage"

----------------------------------------------------------------------------
(* The log of external calls.                                              *)

Ops == {"read_columns", "read_data", "write_parquet", "ddl", "put", "copy"}

Entry(op, t, ok, target) == [op |-> op, tbl |-> t, ok |-> ok, target |-> target]

Logged(op, t, ok) == \E k \in 1..Len(log) :
    log[k].op = op /\ log[k].tbl = t /\ log[k].ok = ok

Attempted(op, t) == Logged(op, t, TRUE) \/ Logged(op, t, FALSE)

Attempts(op, t) == Cardinality({k \in 1..Len(log) : log[k].op = op /\ log[k].tbl = t})

\* Position in the log of the successful call op on t (0 when there is none).
PosOk(op, t) ==
    IF Logged(op, t, TRUE)
    THEN CHOOSE k \in 1..Len(log) : log[k].op = op /\ log[k].tbl = t /\ log[k].ok
    ELSE 0

TableSet == {tables[k] : k \in 1..Len(tables)}

\* Discovery order: t comes before u in `tables`.
Before(t, u) == \E a, b \in 1..Len(tables) : a < b /\ tables[a] = t /\ tables[b] = u

Ended == pc \in {"done", "exit1", "crashed"}

----------------------------------------------------------------------------
(* Results of the catalog query: sequences of distinct rows.               *)

RECURSIVE DistinctSeqs(_)
DistinctSeqs(n) ==
    IF n = 0 THEN {<< >>}
    ELSE LET shorter == DistinctSeqs(n - 1)
         IN shorter \cup
            {Append(s, t) : s \in {r \in shorter : Len(r) = n - 1}, t \in TableIds}

IsDistinct(s) == \A a, b \in 1..Len(s) : a # b => s[a] # s[b]

Catalogs == {s \in DistinctSeqs(MaxTables) : IsDistinct(s)}

----------------------------------------------------------------------------
(* The orchestrating script, one action per outcome of each external call. *)

NoFn == "unset"

InitOrch ==
    /\ pc = "connect_mssql"
    /\ tables = << >>
    /\ idx = 0
    /\ sf_ddl_statements = << >>
    /\ mssql_opened = FALSE
    /\ mssql_closes = 0
    /\ sf_opened = FALSE
    /\ sf_closes = 0
    /\ log = << >>

Init ==
    /\ InitOrch
    /\ dtype = << >>
    /\ col = NoFn
    /\ sf_type = NoFn
    /\ col_expr = NoFn

\* An exception the script does not catch: the interpreter prints the
\* traceback and exits; no later statement runs.
Crash == pc' = "crashed"

\* Where each loop goes after finishing the table at position idx.
AfterExport == IF idx < Len(tables) THEN "read_columns" ELSE "connect_snowflake"

AfterDdl == IF idx < Len(sf_ddl_statements) THEN "ddl" ELSE
            IF Len(tables) > 0 THEN "put" ELSE "cleanup"

AfterLoad == IF idx < Len(tables) THEN "put" ELSE "cleanup"

\* Lines 37-40: pyodbc.connect returns.
ConnectMssqlOk ==
    /\ pc = "connect_mssql"
    /\ mssql_opened' = TRUE
    /\ pc' = "get_tables"
    /\ UNCHANGED <<tables, idx, sf_ddl_statements, mssql_closes, sf_opened,
                   sf_closes, log, fnVars>>

\* Lines 41-43: pyodbc.connect raises pyodbc.Error; exit(1).
ConnectMssqlFail ==
    /\ pc = "connect_mssql"
    /\ pc' = "exit1"
    /\ UNCHANGED <<tables, idx, sf_ddl_statements, mssql_opened, mssql_closes,
                   sf_opened, sf_closes, log, fnVars>>

\* Lines 46-55: the catalog query returns its rows; the export loop starts,
\* or is skipped when there are no rows.
GetTablesOk ==
    /\ pc = "get_tables"
    /\ \E ts \in Catalogs :
        /\ tables' = ts
        /\ idx' = IF Len(ts) > 0 THEN 1 ELSE 0
        /\ pc' = IF Len(ts) > 0 THEN "read_columns" ELSE "connect_snowflake"
    /\ UNCHANGED <<sf_ddl_statements, mssql_opened, mssql_closes, sf_opened,
                   sf_closes, log, fnVars>>

\* Lines 46-51: the catalog query raises; nothing catches it.
GetTablesFail ==
    /\ pc = "get_tables"
    /\ Crash
    /\ UNCHANGED <<tables, idx, sf_ddl_statements, mssql_opened, mssql_closes,
                   sf_opened, sf_closes, log, fnVars>>

\* Lines 112-133: the column-metadata query returns; the DDL statement is
\* built and appended to sf_ddl_statements before the table is exported.
ReadColumnsOk ==
    /\ pc = "read_columns"
    /\ log' = Append(log, Entry("read_columns", tables[idx], TRUE, source_table(tables[idx])))
    /\ sf_ddl_statements' = Append(sf_ddl_statements, ddl_table(tables[idx]))
    /\ pc' = "read_data"
    /\ UNCHANGED <<tables, idx, mssql_opened, mssql_closes, sf_opened,
                   sf_closes, fnVars>>

\* Lines 112-116: the column-metadata query raises; nothing catches it.
ReadColumnsFail ==
    /\ pc = "read_columns"
    /\ log' = Append(log, Entry("read_columns", tables[idx], FALSE, source_table(tables[idx])))
    /\ Crash
    /\ UNCHANGED <<tables, idx, sf_ddl_statements, mssql_opened, mssql_closes,
                   sf_opened, sf_closes, fnVars>>

\* Lines 136-139: the projection query returns its rows (a duplicate-column
\* warning is only printed).
ReadDataOk ==
    /\ pc = "read_data"
    /\ log' = Append(log, Entry("read_data", tables[idx], TRUE, source_table(tables[idx])))
    /\ pc' = "write_parquet"
    /\ UNCHANGED <<tables, idx, sf_ddl_statements, mssql_opened, mssql_closes,
                   sf_opened, sf_closes, fnVars>>

\* A variant of ReadDataFail that reports the failure and goes on to the next
\* table, leaving the DDL statement appended at line 124 in the list.
ReadDataFail_Continue ==
    /\ pc = "read_data"
    /\ log' = Append(log, Entry("read_data", tables[idx], FALSE, source_table(tables[idx])))
    /\ idx' = IF idx < Len(tables) THEN idx + 1 ELSE 1
    /\ pc' = AfterExport
    /\ UNCHANGED <<tables, sf_ddl_statements, mssql_opened, mssql_closes,
                   sf_opened, sf_closes, fnVars>>

\* Line 136: the projection query raises; nothing catches it.
ReadDataFail ==
    /\ pc = "read_data"
    /\ log' = Append(log, Entry("read_data", tables[idx], FALSE, source_table(tables[idx])))
    /\ Crash
    /\ UNCHANGED <<tables, idx, sf_ddl_statements, mssql_opened, mssql_closes,
                   sf_opened, sf_closes, fnVars>>

\* Lines 141-143: the parquet file is written; the loop moves to the next
\* table, or ends.  idx restarts at 1 for the DDL loop.
WriteParquetOk ==
    /\ pc = "write_parquet"
    /\ log' = Append(log, Entry("write_parquet", tables[idx], TRUE, table_path(tables[idx])))
    /\ idx' = IF idx < Len(tables) THEN idx + 1 ELSE 1
    /\ pc' = AfterExport
    /\ UNCHANGED <<tables, sf_ddl_statements, mssql_opened, mssql_closes,
                   sf_opened, sf_closes, fnVars>>

\* Lines 142-143: the conversion or the file write raises; nothing catches it.
WriteParquetFail ==
    /\ pc = "write_parquet"
    /\ log' = Append(log, Entry("write_parquet", tables[idx], FALSE, table_path(tables[idx])))
    /\ Crash
    /\ UNCHANGED <<tables, idx, sf_ddl_statements, mssql_opened, mssql_closes,
                   sf_opened, sf_closes, fnVars>>

\* Lines 146-149: snowflake.connector.connect returns; the DDL loop starts.
ConnectSnowflakeOk ==
    /\ pc = "connect_snowflake"
    /\ sf_opened' = TRUE
    /\ idx' = IF Len(sf_ddl_statements) > 0 THEN 1 ELSE 0
    /\ pc' = IF Len(sf_ddl_statements) > 0 THEN "ddl" ELSE
             IF Len(tables) > 0 THEN "put" ELSE "cleanup"
    /\ UNCHANGED <<tables, sf_ddl_statements, mssql_opened, mssql_closes,
                   sf_closes, log, fnVars>>

\* Lines 150-152: snowflake.connector.connect raises; exit(1).
ConnectSnowflakeFail ==
    /\ pc = "connect_snowflake"
    /\ pc' = "exit1"
    /\ UNCHANGED <<tables, idx, sf_ddl_statements, mssql_opened, mssql_closes,
                   sf_opened, sf_closes, log, fnVars>>

\* Lines 154-156: the statement at position idx of sf_ddl_statements is
\* executed; it is the statement built from tables[idx].
ExecuteDdlOk ==
    /\ pc = "ddl"
    /\ log' = Append(log, Entry("ddl", tables[idx], TRUE, sf_ddl_statements[idx]))
    /\ idx' = IF idx < Len(sf_ddl_statements) THEN idx + 1 ELSE 1
    /\ pc' = AfterDdl
    /\ UNCHANGED <<tables, sf_ddl_statements, mssql_opened, mssql_closes,
                   sf_opened, sf_closes, fnVars>>

\* Line 156: sf_cursor.execute(ddl) raises; nothing catches it.
ExecuteDdlFail ==
    /\ pc = "ddl"
    /\ log' = Append(log, Entry("ddl", tables[idx], FALSE, sf_ddl_statements[idx]))
    /\ Crash
    /\ UNCHANGED <<tables, idx, sf_ddl_statements, mssql_opened, mssql_closes,
                   sf_opened, sf_closes, fnVars>>
\* Lines 160-176: the PUT command for the file of tables[idx] returns.
PutOk ==
    /\ pc = "put"
    /\ log' = Append(log, Entry("put", tables[idx], TRUE, parquet_file(tables[idx])))
    /\ pc' = "copy"
    /\ UNCHANGED <<tables, idx, sf_ddl_statements, mssql_opened, mssql_closes,
                   sf_opened, sf_closes, fnVars>>

\* A variant of PutFail without the try/except around the PUT command.
PutFail_Uncaught ==
    /\ pc = "put"
    /\ log' = Append(log, Entry("put", tables[idx], FALSE, parquet_file(tables[idx])))
    /\ Crash
    /\ UNCHANGED <<tables, idx, sf_ddl_statements, mssql_opened, mssql_closes,
                   sf_opened, sf_closes, fnVars>>

\* A variant of PutFail without the `continue` of line 179: the failure is
\* reported and the COPY command of the same table follows.
PutFail_NoContinue ==
    /\ pc = "put"
    /\ log' = Append(log, Entry("put", tables[idx], FALSE, parquet_file(tables[idx])))
    /\ pc' = "copy"
    /\ UNCHANGED <<tables, idx, sf_ddl_statements, mssql_opened, mssql_closes,
                   sf_opened, sf_closes, fnVars>>

\* Lines 174-179: the PUT command raises; the except clause reports it and
\* `continue` moves to the next table, skipping the COPY command.
PutFail ==
    /\ pc = "put"
    /\ log' = Append(log, Entry("put", tables[idx], FALSE, parquet_file(tables[idx])))
    /\ idx' = IF idx < Len(tables) THEN idx + 1 ELSE idx
    /\ pc' = AfterLoad
    /\ UNCHANGED <<tables, sf_ddl_statements, mssql_opened, mssql_closes,
                   sf_opened, sf_closes, fnVars>>

\* Lines 181-183: the COPY INTO command returns.
CopyOk ==
    /\ pc = "copy"
    /\ log' = Append(log, Entry("copy", tables[idx], TRUE, full_table_name(tables[idx])))
    /\ idx' = IF idx < Len(tables) THEN idx + 1 ELSE idx
    /\ pc' = AfterLoad
    /\ UNCHANGED <<tables, sf_ddl_statements, mssql_opened, mssql_closes,
                   sf_opened, sf_closes, fnVars>>

\* A variant of CopyFail that issues the COPY command of the same table again.
CopyFail_Retry ==
    /\ pc = "copy"
    /\ log' = Append(log, Entry("copy", tables[idx], FALSE, full_table_name(tables[idx])))
    /\ pc' = "copy"
    /\ UNCHANGED <<tables, idx, sf_ddl_statements, mssql_opened, mssql_closes,
                   sf_opened, sf_closes, fnVars>>

\* Lines 184-185: the COPY INTO command raises; the except clause reports it
\* and the loop moves to the next table.
CopyFail ==
    /\ pc = "copy"
    /\ log' = Append(log, Entry("copy", tables[idx], FALSE, full_table_name(tables[idx])))
    /\ idx' = IF idx < Len(tables) THEN idx + 1 ELSE idx
    /\ pc' = AfterLoad
    /\ UNCHANGED <<tables, sf_ddl_statements, mssql_opened, mssql_closes,
                   sf_opened, sf_closes, fnVars>>

\* Lines 190-191: cursor.close(); mssql_conn.close().
CloseMssql ==
    /\ pc = "cleanup"
    /\ mssql_closes' = mssql_closes + 1
    /\ pc' = "cleanup_snowflake"
    /\ UNCHANGED <<tables, idx, sf_ddl_statements, mssql_opened, sf_opened,
                   sf_closes, log, fnVars>>

\* Lines 192-195: sf_cursor.close(); sf_conn.close(); the script ends.
CloseSnowflake ==
    /\ pc = "cleanup_snowflake"
    /\ sf_closes' = sf_closes + 1
    /\ pc' = "done"
    /\ UNCHANGED <<tables, idx, sf_ddl_statements, mssql_opened, mssql_closes,
                   sf_opened, log, fnVars>>

Next ==
    \/ ConnectMssqlOk
    \/ ConnectMssqlFail
    \/ GetTablesOk
    \/ GetTablesFail
    \/ ReadColumnsOk
    \/ ReadColumnsFail
    \/ ReadDataOk
    \/ ReadDataFail
    \/ WriteParquetOk
    \/ WriteParquetFail
    \/ ConnectSnowflakeOk
    \/ ConnectSnowflakeFail
    \/ ExecuteDdlOk
    \/ ExecuteDdlFail
    \/ PutOk
    \/ PutFail
    \/ CopyOk
    \/ CopyFail
    \/ CloseMssql
    \/ CloseSnowflake

Spec == Init /\ [][Next]_vars

\* The script is one sequential thread: whenever a statement is next, it
\* runs.  Used for the claims about the run going on to its end.
FairSpec == Spec /\ WF_vars(Next)
----------------------------------------------------------------------------
(* The pure helpers.  A type name is a sequence of characters, so that     *)
(* str.lower() is a computation on it; column names and the SQL text built *)
(* from them are strings.                                                  *)

\* str.lower() on one character: an upper-case letter becomes its lower-case
\* letter, every other character (digits, "_") is unchanged.
LowerOf ==
    "A" :> "a" @@ "B" :> "b" @@ "C" :> "c" @@ "D" :> "d" @@ "E" :> "e" @@ "F" :> "f" @@ "G" :> "g" @@
    "H" :> "h" @@ "I" :> "i" @@ "J" :> "j" @@ "K" :> "k" @@ "L" :> "l" @@ "M" :> "m" @@ "N" :> "n" @@
    "O" :> "o" @@ "P" :> "p" @@ "Q" :> "q" @@ "R" :> "r" @@ "S" :> "s" @@ "T" :> "t" @@ "U" :> "u" @@
    "V" :> "v" @@ "W" :> "w" @@ "X" :> "x" @@ "Y" :> "y" @@ "Z" :> "z"

lower_char(c) == IF c \in DOMAIN LowerOf THEN LowerOf[c] ELSE c

lower(s) == [k \in 1..Len(s) |-> lower_char(s[k])]

\* The dictionary `mapping` of mssql_to_sf_type.
mapping ==
    <<"i","n","t">> :> "NUMBER" @@
    <<"b","i","g","i","n","t">> :> "NUMBER" @@
    <<"s","m","a","l","l","i","n","t">> :> "NUMBER" @@
    <<"t","i","n","y","i","n","t">> :> "NUMBER" @@
    <<"b","i","t">> :> "BOOLEAN" @@
    <<"v","a","r","c","h","a","r">> :> "VARCHAR" @@
    <<"n","v","a","r","c","h","a","r">> :> "VARCHAR" @@
    <<"c","h","a","r">> :> "VARCHAR" @@
    <<"n","c","h","a","r">> :> "VARCHAR" @@
    <<"t","e","x","t">> :> "VARCHAR" @@
    <<"n","t","e","x","t">> :> "VARCHAR" @@
    <<"d","a","t","e","t","i","m","e">> :> "TIMESTAMP_NTZ" @@
    <<"d","a","t","e","t","i","m","e","2">> :> "TIMESTAMP_NTZ" @@
    <<"s","m","a","l","l","d","a","t","e","t","i","m","e">> :> "TIMESTAMP_NTZ" @@
    <<"d","a","t","e">> :> "DATE" @@
    <<"t","i","m","e">> :> "TIME" @@
    <<"f","l","o","a","t">> :> "FLOAT" @@
    <<"r","e","a","l">> :> "FLOAT" @@
    <<"d","e","c","i","m","a","l">> :> "NUMBER" @@
    <<"n","u","m","e","r","i","c">> :> "NUMBER" @@
    <<"m","o","n","e","y">> :> "NUMBER" @@
    <<"s","m","a","l","l","m","o","n","e","y">> :> "NUMBER" @@
    <<"u","n","i","q","u","e","i","d","e","n","t","i","f","i","e","r">> :> "VARCHAR" @@
    <<"x","m","l">> :> "VARCHAR" @@
    <<"s","q","l","_","v","a","r","i","a","n","t">> :> "VARCHAR" @@
    <<"h","i","e","r","a","r","c","h","y","i","d">> :> "VARCHAR" @@
    <<"g","e","o","m","e","t","r","y">> :> "VARCHAR" @@
    <<"g","e","o","g","r","a","p","h","y">> :> "VARCHAR" @@
    <<"i","m","a","g","e">> :> "VARCHAR" @@
    <<"b","i","n","a","r","y">> :> "VARCHAR" @@
    <<"v","a","r","b","i","n","a","r","y">> :> "VARCHAR"

\* A variant of mssql_to_sf_type that looks the type name up as given.
mssql_to_sf_type_NoLower(mssql_type) ==
    IF mssql_type \in DOMAIN mapping THEN mapping[mssql_type] ELSE "VARCHAR"

\* mapping.get(mssql_type.lower(), 'VARCHAR')
mssql_to_sf_type(mssql_type) ==
    LET key == lower(mssql_type)
    IN IF key \in DOMAIN mapping THEN mapping[key] ELSE "VARCHAR"

\* A variant of wrap_column_expr without `dtype = dtype.lower()`.
wrap_column_expr_NoLower(c, dt) ==
    IF dt \in {<<"i","m","a","g","e">>,
             <<"v","a","r","b","i","n","a","r","y">>,
             <<"b","i","n","a","r","y">>}
    THEN "CONVERT(VARCHAR(MAX), [" \o c \o "], 1) AS [" \o c \o "]"
    ELSE IF dt \in {<<"x","m","l">>,
                  <<"s","q","l","_","v","a","r","i","a","n","t">>,
                  <<"h","i","e","r","a","r","c","h","y","i","d">>,
                  <<"g","e","o","m","e","t","r","y">>,
                  <<"g","e","o","g","r","a","p","h","y">>,
                  <<"t","e","x","t">>,
                  <<"n","t","e","x","t">>}
    THEN "CAST([" \o c \o "] AS NVARCHAR(MAX)) AS [" \o c \o "]"
    ELSE "[" \o c \o "]"

wrap_column_expr(c, dt) ==
    LET d == lower(dt)
    IN IF d \in {<<"i","m","a","g","e">>,
               <<"v","a","r","b","i","n","a","r","y">>,
               <<"b","i","n","a","r","y">>}
       THEN "CONVERT(VARCHAR(MAX), [" \o c \o "], 1) AS [" \o c \o "]"
       ELSE IF d \in {<<"x","m","l">>,
                    <<"s","q","l","_","v","a","r","i","a","n","t">>,
                    <<"h","i","e","r","a","r","c","h","y","i","d">>,
                    <<"g","e","o","m","e","t","r","y">>,
                    <<"g","e","o","g","r","a","p","h","y">>,
                    <<"t","e","x","t">>,
                    <<"n","t","e","x","t">>}
       THEN "CAST([" \o c \o "] AS NVARCHAR(MAX)) AS [" \o c \o "]"
       ELSE "[" \o c \o "]"

(* Inputs of the helpers. *)

UpperOf ==
    "a" :> "A" @@ "b" :> "B" @@ "c" :> "C" @@ "d" :> "D" @@ "e" :> "E" @@ "f" :> "F" @@ "g" :> "G" @@
    "h" :> "H" @@ "i" :> "I" @@ "j" :> "J" @@ "k" :> "K" @@ "l" :> "L" @@ "m" :> "M" @@ "n" :> "N" @@
    "o" :> "O" @@ "p" :> "P" @@ "q" :> "Q" @@ "r" :> "R" @@ "s" :> "S" @@ "t" :> "T" @@ "u" :> "U" @@
    "v" :> "V" @@ "w" :> "W" @@ "x" :> "X" @@ "y" :> "Y" @@ "z" :> "Z"

upper_char(c) == IF c \in DOMAIN UpperOf THEN UpperOf[c] ELSE c

\* s with the characters at the positions in S written in upper case.
UpperAt(s, S) == [k \in 1..Len(s) |-> IF k \in S THEN upper_char(s[k]) ELSE s[k]]

\* Type names the catalog can report that `mapping` does not list.
UnlistedTypes == {<<"v","a","r","i","a","n","t">>,
                  <<"d","a","t","e","t","i","m","e","o","f","f","s","e","t">>,
                  <<"t","i","m","e","s","t","a","m","p">>}

TypeWords == DOMAIN mapping \cup UnlistedTypes

\* Spellings of a type name: at most MaxUpper letters in upper case, or all.
Spellings(w) ==
    {UpperAt(w, S) : S \in {T \in SUBSET (1..Len(w)) : Cardinality(T) <= MaxUpper}}
        \cup {UpperAt(w, 1..Len(w))}

TypeInputs == UNION {Spellings(w) : w \in TypeWords}

ColumnNames == {"id", "Order Date", "photo"}

SnowflakeTypes == {"NUMBER", "BOOLEAN", "VARCHAR", "TIMESTAMP_NTZ", "DATE", "TIME", "FLOAT"}

InitFn ==
    /\ InitOrch
    /\ dtype \in TypeInputs
    /\ col \in ColumnNames
    /\ sf_type = NoFn
    /\ col_expr = NoFn

\* Line 120: the DDL column definition of one metadata row.
MapType ==
    /\ sf_type = NoFn
    /\ sf_type' = mssql_to_sf_type(dtype)
    /\ UNCHANGED <<orchVars, dtype, col, col_expr>>

\* Line 131: the SELECT expression of one metadata row.
WrapColumn ==
    /\ col_expr = NoFn
    /\ col_expr' = wrap_column_expr(col, dtype)
    /\ UNCHANGED <<orchVars, dtype, col, sf_type>>

NextFn == MapType \/ WrapColumn

SpecFn == InitFn /\ [][NextFn]_vars
----------------------------------------------------------------------------
(* Per-table states of the run, read off the log.                          *)

ExportOps == {"read_columns", "read_data", "write_parquet"}
DestinationOps == {"ddl", "put", "copy"}

Extracted(t) == Logged("write_parquet", t, TRUE)
ExportFailed(t) == \E op \in ExportOps : Logged(op, t, FALSE)
DDLIssued(t) == Logged("ddl", t, TRUE)
Staged(t) == Logged("put", t, TRUE)
Loaded(t) == Logged("copy", t, TRUE)
NothingFailed(t) == \A op \in Ops : ~Logged(op, t, FALSE)
StageOrLoadFailed(t) == Logged("put", t, FALSE) \/ Logged("copy", t, FALSE)

----------------------------------------------------------------------------
(* The claims.                                                             *)

\* C1: orchestrator fault isolation.  When the run has ended, for any two
\* discovered tables A and B such that an export step of B failed and no
\* operation of A failed, A was exported, its DDL, stage and load commands
\* were issued and A is Loaded; and the run was not terminated by B's failure.
C1_FaultIsolation ==
    Ended =>
        \A a, b \in TableSet :
            (a # b /\ ExportFailed(b) /\ NothingFailed(a)) =>
                /\ Extracted(a)
                /\ DDLIssued(a)
                /\ Staged(a)
                /\ Loaded(a)
                /\ pc # "crashed"

\* C2: DDL failure isolation.  When the run has ended, if the DDL statement of
\* a table failed then the run did not crash, the DDL statement of every later
\* table was executed and the stage command of every table was attempted.
C2_DdlFailureIsolation ==
    Ended =>
        \A t \in TableSet :
            Logged("ddl", t, FALSE) =>
                /\ pc # "crashed"
                /\ \A u \in TableSet : Before(t, u) => Attempted("ddl", u)
                /\ \A u \in TableSet : Attempted("put", u)

\* C3: stage/load failure isolation.  A failed PUT or COPY command never ends
\* the run abnormally; when the run is done, every table after the failed one
\* has had its stage command attempted; and after such a failure the run
\* always goes on to close both connections and complete.
C3_StageLoadIsolation ==
    /\ [](\A t \in TableSet :
            StageOrLoadFailed(t) =>
                /\ pc \notin {"crashed", "exit1"}
                /\ pc = "done" => \A u \in TableSet : Before(t, u) => Attempted("put", u))
    /\ ((\E t \in TableSet : StageOrLoadFailed(t))
            ~> (pc = "done" /\ mssql_closes = 1 /\ sf_closes = 1))

\* C3 witness: a completed run in which the PUT of one table and the COPY of a
\* later one failed, and a table after both was still staged.
C3_Witness ==
    /\ pc = "done"
    /\ \E t, u, v \in TableSet :
        /\ Before(t, u) /\ Before(u, v)
        /\ Logged("put", t, FALSE)
        /\ Logged("copy", u, FALSE)
        /\ Attempted("put", v)

\* The exit paths C4 lists: normal completion, exit(1) after a failed
\* connection, and a crash caused by a failed per-table operation.
ListedExit ==
    \/ pc \in {"done", "exit1"}
    \/ pc = "crashed" /\ \E k \in 1..Len(log) : ~log[k].ok

\* C4: guaranteed connection release.  On every listed exit path, each
\* connection that was opened has been closed exactly once.
C4_ConnectionsReleased ==
    ListedExit =>
        /\ mssql_opened => mssql_closes = 1
        /\ sf_opened => sf_closes = 1

\* C5: export-before-destination ordering.  Every DDL, stage or load command
\* in the log is preceded by the successful file write of the same table, and
\* a table with a failed export step has no destination command.
C5_ExportBeforeDestination ==
    /\ \A k \in 1..Len(log) :
        log[k].op \in DestinationOps =>
            \E j \in 1..(k - 1) :
                log[j].op = "write_parquet" /\ log[j].tbl = log[k].tbl /\ log[j].ok
    /\ \A t \in TableIds :
        ExportFailed(t) => \A op \in DestinationOps : ~Attempted(op, t)

\* C5 witness: all three destination commands have been issued for a table.
C5_Witness ==
    \E t \in TableSet :
        Attempted("ddl", t) /\ Attempted("put", t) /\ Attempted("copy", t)

\* C6 as stated: no retries, and no omissions.  At the end of a run that
\* reaches the end of the script, every operation of every discovered table
\* has been attempted exactly once.
C6_ExactlyOnce ==
    pc = "done" => \A t \in TableSet : \A op \in Ops : Attempts(op, t) = 1

\* C6 amended: no operation is ever attempted more than once; at the end of a
\* run that reaches the end of the script, the metadata query, projection
\* query, file write, DDL and stage command of every discovered table have
\* been attempted exactly once, and its load command once if its stage command
\* succeeded and not at all otherwise.
C6_AtMostOnce ==
    /\ \A t \in TableIds : \A op \in Ops : Attempts(op, t) <= 1
    /\ pc = "done" =>
        \A t \in TableSet :
            /\ \A op \in Ops \ {"copy"} : Attempts(op, t) = 1
            /\ Attempts("copy", t) = (IF Staged(t) THEN 1 ELSE 0)

\* C6 witness: a completed run with a table whose stage command failed, so its
\* load command was never issued, and a table whose load command failed.
C6_Witness ==
    /\ pc = "done"
    /\ \E t, u \in TableSet :
        /\ Logged("put", t, FALSE) /\ Attempts("copy", t) = 0
        /\ Logged("copy", u, FALSE) /\ Attempts("copy", u) = 1

\* Two type names differ only in letter case.
SameIgnoringCase(a, b) ==
    /\ Len(a) = Len(b)
    /\ \A k \in 1..Len(a) :
        a[k] = b[k] \/ upper_char(a[k]) = b[k] \/ a[k] = upper_char(b[k])

\* C7: mssql_to_sf_type is total, case-insensitive and falls back to VARCHAR.
\* The result for the input is a destination type; every input spelled the
\* same up to letter case gets the same result; and an input whose lower-case
\* form is not a key of the table gets VARCHAR.
C7_MapTypeTotalCaseInsensitive ==
    sf_type # NoFn =>
        /\ sf_type \in SnowflakeTypes
        /\ \A d \in TypeInputs :
            SameIgnoringCase(d, dtype) => mssql_to_sf_type(d) = sf_type
        /\ lower(dtype) \notin DOMAIN mapping => sf_type = "VARCHAR"

\* C7 witness: a listed type spelled with an upper-case letter was mapped to a
\* type other than the fallback.
C7_Witness ==
    /\ sf_type \notin {NoFn, "VARCHAR"}
    /\ dtype # lower(dtype)

BinaryFamily == {<<"i","m","a","g","e">>, <<"b","i","n","a","r","y">>, <<"v","a","r","b","i","n","a","r","y">>}

OpaqueFamily == {<<"x","m","l">>,
                 <<"s","q","l","_","v","a","r","i","a","n","t">>,
                 <<"h","i","e","r","a","r","c","h","y","i","d">>,
                 <<"g","e","o","m","e","t","r","y">>,
                 <<"g","e","o","g","r","a","p","h","y">>,
                 <<"t","e","x","t">>,
                 <<"n","t","e","x","t">>}

\* C8: wrap_column_expr has exactly three outcomes, chosen by the lower-case
\* form of the type: a hex CONVERT aliased to the column for the binary
\* family, a CAST to NVARCHAR(MAX) aliased to the column for the opaque
\* family, and the bare bracket-quoted column for every other type.
C8_WrapColumnThreeOutcomes ==
    col_expr # NoFn =>
        LET d == lower(dtype)
        IN /\ d \in BinaryFamily =>
                col_expr = "CONVERT(VARCHAR(MAX), [" \o col \o "], 1) AS [" \o col \o "]"
           /\ d \in OpaqueFamily =>
                col_expr = "CAST([" \o col \o "] AS NVARCHAR(MAX)) AS [" \o col \o "]"
           /\ d \notin (BinaryFamily \cup OpaqueFamily) =>
                col_expr = "[" \o col \o "]"

\* C8 witness: a binary-family type spelled in upper case was wrapped in the
\* hex conversion.
C8_Witness ==
    /\ dtype = UpperAt(<<"i","m","a","g","e">>, 1..5)
    /\ col = "photo"
    /\ col_expr = "CONVERT(VARCHAR(MAX), [photo], 1) AS [photo]"

\* C9: per-table state order.  A Loaded table was extracted, had its DDL
\* issued, was staged and was loaded, in that order; a load command is issued
\* only after the table's DDL and its successful stage command; a table whose
\* stage command failed has no load command.
C9_StateOrder ==
    /\ \A t \in TableIds :
        Loaded(t) =>
            /\ 0 < PosOk("write_parquet", t)
            /\ PosOk("write_parquet", t) < PosOk("ddl", t)
            /\ PosOk("ddl", t) < PosOk("put", t)
            /\ PosOk("put", t) < PosOk("copy", t)
    /\ \A k \in 1..Len(log) :
        log[k].op = "copy" =>
            /\ \E j \in 1..(k - 1) : log[j].op = "ddl" /\ log[j].tbl = log[k].tbl
            /\ \E j \in 1..(k - 1) :
                log[j].op = "put" /\ log[j].tbl = log[k].tbl /\ log[j].ok
    /\ \A t \in TableIds : Logged("put", t, FALSE) => ~Attempted("copy", t)

\* C9 witness: one table is Loaded and the stage command of another failed.
C9_Witness ==
    \E t, u \in TableSet : Loaded(t) /\ Logged("put", u, FALSE)

\* C10: destination-table uniqueness.  No two distinct source tables have had
\* a DDL statement executed on, or a file loaded into, the same destination
\* table.
C10_DestinationUnique ==
    \A j, k \in 1..Len(log) :
        (/\ log[j].op \in {"ddl", "copy"}
         /\ log[j].op = log[k].op
         /\ log[j].ok /\ log[k].ok
         /\ log[j].tbl # log[k].tbl) => log[j].target # log[k].target
====
